---- MODULE Spec2Model ----
(***************************************************************************)
(* Model of SpotEnv (src/wasm/spot/training/envs/spot_env.py): the         *)
(* reset/step/close lifecycle of the quadruped simulation environment      *)
(* around a PyBullet physics world.                                        *)
(*                                                                         *)
(* Numbers.  A float is a record [k, v]: k = "fin" with v the value in     *)
(* thousandths (milli-units), k = "nan", or k = "inf" with v = 1 / -1 the  *)
(* sign.  Rewards are kept in units of 10^-8 so that every product of the  *)
(* reward formula is exact.                                                *)
(***************************************************************************)
EXTENDS Integers, Sequences, FiniteSets, TLC

(***************************************************************************)
(* Bounds of the model.                                                    *)
(***************************************************************************)
\* Spec explores episodes of at most MaxSteps step() calls after a reset
MaxSteps == 2
\* body handles the physics world may hand out besides the ground plane
MaxBodyId == 2
\* SpecEpisode lets an episode run MaxOverrun steps past max_episode_steps
MaxOverrun == 2
\* SpecSeed hands reset() the seeds 0..MaxSeed
MaxSeed == 1

(***************************************************************************)
(* Floats.                                                                 *)
(***************************************************************************)
F(n) == [k |-> "fin", v |-> n]
NaN == [k |-> "nan", v |-> 0]
PosInf == [k |-> "inf", v |-> 1]
NegInf == [k |-> "inf", v |-> -1]

\* np.isfinite
isfinite(x) == x.k = "fin"
\* np.isfinite(xs).all()
all_finite(xs) == \A i \in 1..Len(xs) : isfinite(xs[i])

\* IEEE comparisons against a finite constant c: every comparison with NaN is false
FLt(x, c) == \/ x.k = "fin" /\ x.v < c
             \/ x.k = "inf" /\ x.v < 0
FGt(x, c) == \/ x.k = "fin" /\ x.v > c
             \/ x.k = "inf" /\ x.v > 0

FNeg(x) == IF x.k = "nan" THEN NaN ELSE [k |-> x.k, v |-> -x.v]
FAbs(x) == IF x.k = "fin" THEN F(IF x.v < 0 THEN -x.v ELSE x.v)
           ELSE IF x.k = "inf" THEN PosInf ELSE NaN
\* IEEE addition: inf + (-inf) = nan
FAdd(x, y) == IF x.k = "nan" \/ y.k = "nan" THEN NaN
              ELSE IF x.k = "inf" /\ y.k = "inf"
                   THEN (IF x.v = y.v THEN x ELSE NaN)
              ELSE IF x.k = "inf" THEN x
              ELSE IF y.k = "inf" THEN y
              ELSE F(x.v + y.v)
FSub(x, y) == FAdd(x, FNeg(y))
\* multiplication by a positive integer factor c
FScale(x, c) == IF x.k = "fin" THEN F(x.v * c) ELSE x
\* multiplication by 0.5 (the model's finite inputs to it are even)
FHalf(x) == IF x.k = "fin" THEN F(x.v \div 2) ELSE x
\* np.square
FSquare(x) == IF x.k = "fin" THEN F(x.v * x.v)
              ELSE IF x.k = "inf" THEN PosInf ELSE NaN

RECURSIVE FSumFrom(_, _)
FSumFrom(xs, i) == IF i > Len(xs) THEN F(0) ELSE FAdd(xs[i], FSumFrom(xs, i + 1))
\* np.sum
FSum(xs) == FSumFrom(xs, 1)

\* pi and pi/3 in milli-units
Pi == 3142
PiThird == 1047
\* largest float32 magnitude, the value np.nan_to_num gives an infinity
FltMax == 2000000000

\* np.clip(x, lo, hi) on one component: minimum(maximum(x, lo), hi); NaN passes through
clip1(x, lo, hi) == IF x.k = "nan" THEN NaN
                    ELSE IF FLt(x, lo) THEN F(lo)
                    ELSE IF FGt(x, hi) THEN F(hi)
                    ELSE x

\* np.nan_to_num on one component
nan_to_num1(x) == IF x.k = "nan" THEN F(0)
                  ELSE IF x.k = "inf" THEN F(x.v * FltMax)
                  ELSE x

\* np.zeros(n)
zeros(n) == [i \in 1..n |-> F(0)]

(***************************************************************************)
(* Constants of SpotEnv.__init__.                                          *)
(***************************************************************************)
max_episode_steps == 1000
\* the step count above which a non-terminated step reports is_success
success_steps == 500
\* Python's None, as a body handle
None == -1

\* observation_space.low / .high: gravity(3), joint_pos(12), joint_vel(12),
\* prev_action(12), command(3)
obs_low == [i \in 1..42 |->
              IF i <= 3 THEN -1000
              ELSE IF i <= 15 THEN -Pi
              ELSE IF i <= 27 THEN -50000
              ELSE IF i <= 39 THEN -Pi
              ELSE -1000]
obs_high == [i \in 1..42 |-> -obs_low[i]]

joint_names == << "motor_front_left_hip", "motor_front_left_upper_leg",
                  "motor_front_left_lower_leg",
                  "motor_front_right_hip", "motor_front_right_upper_leg",
                  "motor_front_right_lower_leg",
                  "motor_back_left_hip", "motor_back_left_upper_leg",
                  "motor_back_left_lower_leg",
                  "motor_back_right_hip", "motor_back_right_upper_leg",
                  "motor_back_right_lower_leg" >>

(***************************************************************************)
(* The physics world (PyBullet), as far as SpotEnv uses it.                *)
(***************************************************************************)
\* Joint lists of the robot asset a reset may load: the complete robot, a
\* robot that lacks the first motor, and one with a fixed joint ahead of the
\* motors that lacks the fifth.
Without(names, k) == SubSeq(names, 1, k - 1) \o SubSeq(names, k + 1, Len(names))
Assets == { joint_names,
            Without(joint_names, 1),
            << "base_fixed" >> \o Without(joint_names, 5) }
AllJointNames == { joint_names[i] : i \in 1..12 } \cup { "base_fixed" }

\* Orientations the world may report: the quaternion, with the Euler angles
\* p.getEulerFromQuaternion gives for it and the direction of gravity in the
\* body frame that p.invertTransform / p.multiplyTransforms give for it.
Orn(q, e, g) == [quat |-> q, euler |-> e, down |-> g]
Level == Orn(<<F(0), F(0), F(0), F(1000)>>, <<F(0), F(0), F(0)>>,
             <<F(0), F(0), F(-1000)>>)
RollEdge == Orn(<<F(500), F(0), F(0), F(866)>>, <<F(1047), F(0), F(0)>>,
                <<F(0), F(-866), F(-500)>>)
RollOver == Orn(<<F(-501), F(0), F(0), F(866)>>, <<F(-1048), F(0), F(0)>>,
                <<F(0), F(866), F(-500)>>)
PitchOver == Orn(<<F(0), F(501), F(0), F(866)>>, <<F(0), F(1048), F(0)>>,
                 <<F(866), F(0), F(-500)>>)
PitchEdge == Orn(<<F(0), F(-500), F(0), F(866)>>, <<F(0), F(-1047), F(0)>>,
                 <<F(-866), F(0), F(-500)>>)
OrnNaN == Orn(<<NaN, NaN, NaN, NaN>>, <<NaN, NaN, NaN>>, <<NaN, NaN, NaN>>)

getEulerFromQuaternion(orn) == orn.euler
\* gravity_body of _get_observation
gravity_in_body(orn) == orn.down

\* Per-joint (position, velocity) readings, by joint name.
JointIndexOf(name) == CHOOSE i \in 1..12 : joint_names[i] = name
AtRest == [n \in AllJointNames |-> <<F(0), F(0)>>]
Distinct == [n \in AllJointNames |->
               IF n = "base_fixed" THEN <<F(7), F(7)>>
               ELSE <<F(100 * JointIndexOf(n)), F(-1000 * JointIndexOf(n))>>]
Wild == [n \in AllJointNames |->
           IF n = "base_fixed" THEN <<F(0), F(0)>>
           ELSE IF JointIndexOf(n) % 2 = 0 THEN <<F(4000), F(-60000)>>
           ELSE <<F(-3500), F(50001)>>]
Broken == [n \in AllJointNames |->
             IF n = "base_fixed" THEN <<F(0), F(0)>>
             ELSE IF JointIndexOf(n) % 3 = 0 THEN <<NaN, PosInf>>
             ELSE IF JointIndexOf(n) % 3 = 1 THEN <<NegInf, NaN>>
             ELSE <<PosInf, NegInf>>]

Phys(pos, orn, vel, joints) == [pos |-> pos, orn |-> orn, vel |-> vel, joints |-> joints]
V3(x, y, z) == <<F(x), F(y), F(z)>>

\* The robot right after p.loadURDF: at start_pos, level, at rest.
Spawned == Phys(V3(0, 0, 300), Level, V3(0, 0, 0), AtRest)

\* What the world may show after one p.stepSimulation().
AfterTick == {
    Phys(V3(0, 0, 300), Level, V3(0, 0, 0), AtRest),
    Phys(V3(10, -5, 280), Level, V3(500, 0, 0), Distinct),
    Phys(V3(0, 0, 50), Level, V3(0, 0, -100), Distinct),
    Phys(V3(0, 0, 100), Level, V3(200, 0, 0), Wild),
    Phys(V3(0, 0, 170), RollEdge, V3(-200, 0, 0), Distinct),
    Phys(V3(0, 0, 300), RollOver, V3(0, 100, 0), Wild),
    Phys(V3(0, 0, 300), PitchOver, V3(300, 0, 0), AtRest),
    Phys(V3(0, 0, 300), PitchEdge, V3(100, 0, 0), Broken),
    Phys(<<NaN, F(0), F(300)>>, Level, V3(0, 0, 0), AtRest),
    Phys(V3(0, 0, 300), OrnNaN, V3(0, 0, 0), Distinct),
    Phys(<<NaN, NaN, NaN>>, OrnNaN, <<NaN, NaN, NaN>>, Broken),
    Phys(V3(0, 0, 300), Level, <<PosInf, F(0), F(0)>>, AtRest) }

(***************************************************************************)
(* Inputs of the calls.                                                    *)
(***************************************************************************)
\* 12-float actions handed to step(): in range, out of range, non-finite
Actions == {
    zeros(12),
    [i \in 1..12 |-> F(100 * i)],
    [i \in 1..12 |-> IF i = 3 THEN PosInf ELSE IF i = 4 THEN NegInf
                      ELSE IF i % 2 = 0 THEN F(4000) ELSE F(-3200)],
    [i \in 1..12 |-> IF i = 2 THEN NaN ELSE F(3142)] }

\* options["command"] of reset(): three numbers, in or out of [-1, 1]
NoCommand == << >>
Commands == { V3(500, -250, 0),
              V3(2000, -3000, 1000),
              <<PosInf, NegInf, F(-1000)>> }
\* draws of np.random.uniform(-1, 1), (-0.5, 0.5), (-0.5, 0.5)
SampledCommands == { V3(0, 0, 0), V3(600, -400, 200) }
\* seeds a caller may hand to reset(seed=...)
Seeds == 0..MaxSeed

(***************************************************************************)
(* State.                                                                  *)
(***************************************************************************)
VARIABLES
    client,           \* self.client: the handle p.connect returned
    connected,        \* whether that physics connection is still open
    world,            \* the bodies of the physics world: handle -> joint names
    phys,             \* the world's current reading of the robot (pose, velocity, joints)
    targets,          \* the set-joint-target calls of the latest step(), in order
    plane_id,         \* self.plane_id
    robot_id,         \* self.robot_id (None before the first reset)
    joint_indices,    \* self.joint_indices (0-based joint indices of the body)
    previous_action,  \* self.previous_action
    command,          \* self.command
    current_step,     \* self.current_step
    given_command,    \* options["command"] of the reset() that began the episode
    np_random,        \* self.np_random: the seed it was last created from (None: never)
    seed_commands,    \* per seed, the commands resets with that seed have sampled
    call,             \* the latest call and its action argument
    ret               \* what the latest call returned, or that it raised

vars == << client, connected, world, phys, targets, plane_id, robot_id,
           joint_indices, previous_action, command, current_step,
           given_command, np_random, seed_commands, call, ret >>

Call(op, action) == [op |-> op, action |-> action]
NoObs == << >>
Raised(op) == [op |-> op, raised |-> TRUE, obs |-> NoObs, reward |-> F(0),
               terminated |-> FALSE, truncated |-> FALSE,
               is_success |-> FALSE, episode_length |-> 0]
Returned(op, obs, reward, terminated, truncated, is_success, episode_length) ==
    [op |-> op, raised |-> FALSE, obs |-> obs, reward |-> reward,
     terminated |-> terminated, truncated |-> truncated,
     is_success |-> is_success, episode_length |-> episode_length]

(***************************************************************************)
(* SpotEnv._load_robot: the joint map.                                     *)
(***************************************************************************)
\* joint_name_to_idx[name]: the (last) index i with getJointInfo(i) naming it
joint_name_to_idx(asset, name) ==
    CHOOSE i \in 0..(Len(asset) - 1) :
        /\ asset[i + 1] = name
        /\ \A j \in 0..(Len(asset) - 1) : asset[j + 1] = name => j <= i
in_asset(asset, name) == \E i \in 1..Len(asset) : asset[i] = name

\* self.joint_indices: the indices of the names that resolve, in name order
build_joint_indices(asset) ==
    LET found == SelectSeq(joint_names, LAMBDA n : in_asset(asset, n))
    IN  [k \in 1..Len(found) |-> joint_name_to_idx(asset, found[k])]

(***************************************************************************)
(* SpotEnv._get_observation.                                               *)
(***************************************************************************)
\* p.getJointStates(robot_id, joint_indices)
getJointStates(asset, indices, joints) ==
    [i \in 1..Len(indices) |-> joints[asset[indices[i] + 1]]]

\* np.pad(xs, (0, 12 - len(xs))) when len(xs) < 12
pad12(xs) == IF Len(xs) < 12 THEN xs \o zeros(12 - Len(xs)) ELSE xs
first12(xs) == SubSeq(xs, 1, IF Len(xs) < 12 THEN Len(xs) ELSE 12)

\* np.nan_to_num(obs) if any entry is non-finite
sanitize_skipped(obs) == obs
sanitize(obs) == IF ~all_finite(obs)
                 THEN [i \in 1..Len(obs) |-> nan_to_num1(obs[i])]
                 ELSE obs

\* np.clip(obs, observation_space.low, observation_space.high)
clip_to_space(obs) == [i \in 1..Len(obs) |-> clip1(obs[i], obs_low[i], obs_high[i])]

\* the observation as assembled by np.concatenate, before it is sanitised
raw_observation(ph, asset, indices, prev, cmd) ==
    LET joint_states == getJointStates(asset, indices, ph.joints)
        joint_positions == pad12([i \in 1..Len(joint_states) |-> joint_states[i][1]])
        joint_velocities == pad12([i \in 1..Len(joint_states) |-> joint_states[i][2]])
    IN  gravity_in_body(ph.orn) \o first12(joint_positions)
          \o first12(joint_velocities) \o prev \o cmd

get_observation(ph, asset, indices, prev, cmd) ==
    clip_to_space(sanitize(raw_observation(ph, asset, indices, prev, cmd)))

(***************************************************************************)
(* SpotEnv._calculate_reward, in units of 10^-8.                           *)
(***************************************************************************)
calculate_reward(ph, cmd, prev) ==
    LET height == ph.pos[3]
        roll == getEulerFromQuaternion(ph.orn)[1]
        pitch == getEulerFromQuaternion(ph.orn)[2]
        alive_reward == IF FGt(height, 150) THEN 1000 ELSE 0
        target_vel_x == FHalf(cmd[1])
        vel_reward == FNeg(FAbs(FSub(ph.vel[1], target_vel_x)))
        orientation_penalty == FNeg(FAdd(FAbs(roll), FAbs(pitch)))
        action_diff == FSum([i \in 1..Len(prev) |-> FSquare(prev[i])])
        energy_penalty == FNeg(action_diff)
        height_reward == IF FGt(height, 200) /\ FLt(height, 500) THEN 500 ELSE -1000
    IN  FAdd(FAdd(FAdd(FAdd(F(alive_reward * 100000),
                            FScale(vel_reward, 200000)),
                       FScale(orientation_penalty, 50000)),
                  energy_penalty),
             F(height_reward * 50000))

(***************************************************************************)
(* SpotEnv._is_terminated.                                                 *)
(***************************************************************************)
is_terminated_unchecked(ph) ==
    LET height == ph.pos[3]
        roll == getEulerFromQuaternion(ph.orn)[1]
        pitch == getEulerFromQuaternion(ph.orn)[2]
    IN  IF FLt(height, 100) THEN TRUE
        ELSE IF FGt(FAbs(roll), PiThird) \/ FGt(FAbs(pitch), PiThird) THEN TRUE
        ELSE FALSE
is_terminated_no_tilt(ph) ==
    LET height == ph.pos[3]
    IN  IF ~all_finite(ph.pos) \/ ~all_finite(ph.orn.quat) THEN TRUE
        ELSE IF FLt(height, 100) THEN TRUE
        ELSE FALSE
is_terminated(ph) ==
    LET height == ph.pos[3]
        roll == getEulerFromQuaternion(ph.orn)[1]
        pitch == getEulerFromQuaternion(ph.orn)[2]
    IN  IF ~all_finite(ph.pos) \/ ~all_finite(ph.orn.quat) THEN TRUE
        ELSE IF FLt(height, 100) THEN TRUE
        ELSE IF FGt(FAbs(roll), PiThird) \/ FGt(FAbs(pitch), PiThird) THEN TRUE
        ELSE FALSE

(***************************************************************************)
(* SpotEnv.__init__ and _setup_simulation.                                 *)
(***************************************************************************)
Init ==
    /\ client = 0
    /\ connected = TRUE
    /\ plane_id = 0
    /\ world = (0 :> << >>)
    /\ phys = Spawned
    /\ targets = << >>
    /\ robot_id = None
    /\ joint_indices = << >>
    /\ previous_action = zeros(12)
    /\ command = V3(0, 0, 0)
    /\ current_step = 0
    /\ given_command = NoCommand
    /\ np_random = None
    /\ seed_commands = [s \in Seeds |-> {}]
    /\ call = Call("init", << >>)
    /\ ret = Returned("init", NoObs, F(0), FALSE, FALSE, FALSE, 0)

(***************************************************************************)
(* SpotEnv.reset.  asset: the joints of the robot file loaded; id: the     *)
(* handle the world gives the new body; opt: options["command"] or         *)
(* NoCommand; drawn: the command sampled when none is given.               *)
(***************************************************************************)
\* p.removeBody(id)
remove_body_skipped(w, id) == w
remove_body(w, id) == [b \in (DOMAIN w) \ {id} |-> w[b]]

\* self.previous_action at the start of an episode
kept_previous_action(old) == old
fresh_previous_action(old) == zeros(12)

\* self.command: options["command"] when given, else the sampled one
chosen_command_sampled(opt, drawn) == drawn
chosen_command(opt, drawn) == IF opt # NoCommand THEN opt ELSE drawn

reset(asset, id, opt, drawn) ==
    /\ call' = Call("reset", << >>)
    /\ IF ~connected
       THEN \* p.removeBody / p.loadURDF raise: not connected
            /\ ret' = Raised("reset")
            /\ UNCHANGED << client, connected, world, phys, targets, plane_id,
                            robot_id, joint_indices, previous_action, command,
                            current_step, given_command >>
       ELSE LET cleared == IF robot_id # None THEN remove_body(world, robot_id)
                           ELSE world
                cmd == chosen_command(opt, drawn)
                prev == fresh_previous_action(previous_action)
                indices == build_joint_indices(asset)
            IN  /\ id \notin DOMAIN cleared
                /\ world' = (id :> asset) @@ cleared
                /\ robot_id' = id
                /\ joint_indices' = indices
                /\ phys' = Spawned
                /\ current_step' = 0
                /\ previous_action' = prev
                /\ command' = cmd
                /\ given_command' = opt
                /\ ret' = Returned("reset",
                                   get_observation(Spawned, asset, indices,
                                                   prev, cmd),
                                   F(0), FALSE, FALSE, FALSE, 0)
                /\ UNCHANGED << client, connected, targets, plane_id >>

\* super().reset(seed=seed): a seed creates self.np_random anew; the global
\* generator behind np.random.uniform is not touched
super_reset(seed) == np_random' = IF seed # None THEN seed ELSE np_random

\* reset(seed=seed, options=...): the whole call.  drawn is what the global
\* np.random generator yields for the three np.random.uniform draws.
reset_call(seed, asset, id, opt, drawn) ==
    /\ super_reset(seed)
    /\ reset(asset, id, opt, drawn)
    /\ seed_commands' = IF connected /\ seed # None /\ opt = NoCommand
                        THEN [seed_commands EXCEPT ![seed] = @ \cup {command'}]
                        ELSE seed_commands

(***************************************************************************)
(* SpotEnv.step.  action: the 12 floats given; after: what the world shows *)
(* once p.stepSimulation() has run.                                        *)
(***************************************************************************)
\* np.clip(action, -np.pi, np.pi)
clip_action(action) == [i \in 1..Len(action) |-> clip1(action[i], -Pi, Pi)]

\* the p.setJointMotorControl2 calls of one step
joint_targets(indices, action) ==
    LET n == IF Len(indices) < 12 THEN Len(indices) ELSE 12
        m == IF n < Len(action) THEN n ELSE Len(action)
    IN  [i \in 1..m |-> [joint |-> indices[i], target |-> action[i]]]

\* self.previous_action = action.copy(), action being the clipped one
stored_action_raw(raw, clipped) == raw
stored_action(raw, clipped) == clipped

\* truncated = self.current_step >= self.max_episode_steps
is_truncated_late(n) == n > max_episode_steps
is_truncated(n) == n >= max_episode_steps

\* info["is_success"] = not terminated and self.current_step > 500
is_success_early(terminated, n) == ~terminated /\ n >= success_steps
is_success(terminated, n) == ~terminated /\ n > success_steps

step(action, after) ==
    LET clipped == clip_action(action)
        n == current_step + 1
    IN  /\ call' = Call("step", action)
        /\ current_step' = n
        /\ UNCHANGED << np_random, seed_commands >>
        /\ IF ~connected
           THEN \* p.setJointMotorControl2 / p.stepSimulation raise: not connected
                /\ ret' = Raised("step")
                /\ targets' = << >>
                /\ UNCHANGED << client, connected, world, phys, plane_id, robot_id,
                                joint_indices, previous_action, command,
                                given_command >>
           ELSE IF robot_id = None
           THEN \* no body yet: p.getBasePositionAndOrientation(None) raises
                /\ ret' = Raised("step")
                /\ targets' = << >>
                /\ previous_action' = stored_action(action, clipped)
                /\ UNCHANGED << client, connected, world, phys, plane_id, robot_id,
                                joint_indices, command, given_command >>
           ELSE LET prev == stored_action(action, clipped)
                    terminated == is_terminated(after)
                    truncated == is_truncated(n)
                IN  /\ targets' = joint_targets(joint_indices, clipped)
                    /\ phys' = after
                    /\ previous_action' = prev
                    /\ ret' = Returned("step",
                                       get_observation(after, world[robot_id],
                                                       joint_indices, prev, command),
                                       calculate_reward(after, command, prev),
                                       terminated, truncated,
                                       is_success(terminated, n), n)
                    /\ UNCHANGED << client, connected, world, plane_id, robot_id,
                                    joint_indices, command, given_command >>

(***************************************************************************)
(* SpotEnv.close.                                                          *)
(***************************************************************************)
close ==
    /\ call' = Call("close", << >>)
    /\ IF client >= 0
       THEN IF connected
            THEN \* p.disconnect: the connection and its world are released
                 /\ connected' = FALSE
                 /\ world' = << >>
                 /\ ret' = Returned("close", NoObs, F(0), FALSE, FALSE, FALSE, 0)
            ELSE \* p.disconnect on a released connection raises: not connected
                 /\ ret' = Raised("close")
                 /\ UNCHANGED << connected, world >>
       ELSE /\ ret' = Returned("close", NoObs, F(0), FALSE, FALSE, FALSE, 0)
            /\ UNCHANGED << connected, world >>
    /\ UNCHANGED << client, phys, targets, plane_id, robot_id, joint_indices,
                    previous_action, command, current_step, given_command,
                    np_random, seed_commands >>

(***************************************************************************)
(* Specifications.                                                         *)
(***************************************************************************)
BodyIds == 1..MaxBodyId

\* the inputs that decide the outcome of a call in the current state: a call
\* that raises before it reads an input is taken once, not once per input
ResetInputs ==
    IF connected
    THEN { <<asset, id, opt, drawn>> :
               asset \in Assets, id \in BodyIds,
               opt \in Commands \cup {NoCommand}, drawn \in SampledCommands }
    ELSE { <<joint_names, 1, NoCommand, V3(0, 0, 0)>> }
Readings == IF connected /\ robot_id # None THEN AfterTick ELSE {phys}

Reset == \E in \in ResetInputs :
            /\ (in[3] # NoCommand => in[4] = V3(0, 0, 0))
            /\ reset_call(None, in[1], in[2], in[3], in[4])
Step == /\ current_step < MaxSteps
        /\ \E action \in Actions, after \in Readings : step(action, after)
Close == close

Next == Reset \/ Step \/ Close
Spec == Init /\ [][Next]_vars

\* One long episode at a time: the complete robot, a zero action on every
\* step, any reading after each tick; the step counter runs past the cap.
EpisodeReset == \E id \in BodyIds :
                   reset_call(None, joint_names, id, NoCommand, V3(0, 0, 0))
EpisodeStep == /\ current_step < max_episode_steps + MaxOverrun
               /\ \E after \in Readings : step(zeros(12), after)

NextEpisode == EpisodeReset \/ EpisodeStep
SpecEpisode == Init /\ [][NextEpisode]_vars

\* Seeded resets: the complete robot, reset with or without a seed and with
\* or without a command, and quiet steps in between.
SeedReset == \E seed \in Seeds \cup {None}, id \in BodyIds,
                opt \in {NoCommand, V3(500, -250, 0)}, drawn \in SampledCommands :
                /\ (opt # NoCommand => drawn = V3(0, 0, 0))
                /\ reset_call(seed, joint_names, id, opt, drawn)
SeedStep == /\ current_step < MaxSteps
            /\ \E action \in {zeros(12), [i \in 1..12 |-> F(100 * i)]} :
                   step(action, Spawned)

NextSeed == SeedReset \/ SeedStep
SpecSeed == Init /\ [][NextSeed]_vars

(***************************************************************************)
(* Properties.                                                             *)
(***************************************************************************)
\* the latest call was a reset() or step() that returned an observation
GaveObservation == ret.op \in {"reset", "step"} /\ ~ret.raised
StepReturned == ret.op = "step" /\ ~ret.raised

\* x clamped to [lo, hi]: the nearest bound when outside; NaN has none
Nearest(x, lo, hi) == IF x.k = "nan" THEN x
                      ELSE IF x.k = "inf" THEN (IF x.v > 0 THEN F(hi) ELSE F(lo))
                      ELSE IF x.v < lo THEN F(lo)
                      ELSE IF x.v > hi THEN F(hi)
                      ELSE x
Within(x, lo, hi) == x.k = "fin" /\ lo <= x.v /\ x.v <= hi

\* the declared bound of observation slot i (1-based), in milli-units
SlotBound(i) == IF i \in 1..3 THEN 1000
                ELSE IF i \in 4..15 THEN Pi
                ELSE IF i \in 16..27 THEN 50000
                ELSE IF i \in 28..39 THEN Pi
                ELSE 1000

\* C1: every observation reset() or step() returns has exactly 42 entries,
\* each finite and inside the declared bound of its slot, whatever the
\* physics world reads (non-finite readings included).
C1_ObservationInSpace ==
    GaveObservation =>
        /\ Len(ret.obs) = 42
        /\ \A i \in 1..Len(ret.obs) :
               Within(ret.obs[i], -SlotBound(i), SlotBound(i))

\* C1 witness: a step returned an observation of a world whose pose, velocity
\* and joint readings are all non-finite.
C1_Witness ==
    /\ StepReturned
    /\ phys.joints = Broken
    /\ ~all_finite(phys.pos)
    /\ ~all_finite(phys.orn.quat)

\* C2: step() rejects no action, and every joint target it issues lies in
\* [-pi, pi], for every action given (out-of-range components included).
C2_TargetsInRange ==
    /\ (call.op = "step" /\ connected /\ robot_id # None) => ~ret.raised
    /\ \A i \in 1..Len(targets) : Within(targets[i].target, -Pi, Pi)

\* what a returned step(a) leaves behind: a clamped componentwise to
\* [-pi, pi] as the stored action, in slots 27..38 of the observation and in
\* the reward
StoredIsClamped ==
    StepReturned =>
        LET a == call.action
            clamped == [i \in 1..12 |-> Nearest(a[i], -Pi, Pi)]
        IN  /\ previous_action = clamped
            /\ \A i \in 1..12 :
                   ret.obs[27 + i] = IF clamped[i].k = "nan" THEN F(0) ELSE clamped[i]
            /\ ret.reward = calculate_reward(phys, command, clamped)

\* C3: after a step(a) the stored previous action is a clamped componentwise
\* to [-pi, pi], not the raw a; the observation of that step carries it in
\* slots 27..38 (a NaN component, which no clamp changes, is reported as 0)
\* and the reward of that step is computed from it; a call other than step()
\* or reset() leaves it as it is.
C3_PreviousActionIsClamped ==
    /\ []StoredIsClamped
    /\ [][call'.op \notin {"step", "reset"} => previous_action' = previous_action]_vars

\* C3 witness: a step returned whose action had components on both sides
\* outside [-pi, pi], so the stored action differs from the one given.
C3_Witness ==
    /\ StepReturned
    /\ call.action[2] = F(4000)
    /\ call.action[1] = F(-3200)
    /\ previous_action # call.action

\* C4: when reset() is given a command c, the command slots 39..41 of the
\* observation of that reset and of every step of the episode are c clamped
\* componentwise to [-1, 1], and the stored command stays c.
C4_CommandRoundTrip ==
    given_command # NoCommand =>
        /\ command = given_command
        /\ GaveObservation =>
               \A j \in 1..3 :
                   ret.obs[39 + j] = Nearest(given_command[j], -1000, 1000)

\* C4 witness: the second step of an episode whose command was given out of
\* range returned.
C4_Witness ==
    /\ StepReturned
    /\ current_step = 2
    /\ given_command = V3(2000, -3000, 1000)

\* the pose read after the tick holds no NaN and no infinity
PoseFinite == all_finite(phys.pos) /\ all_finite(phys.orn.quat)
Magnitude(n) == IF n < 0 THEN -n ELSE n

\* C5: for a finite pose after the tick, step() returns terminated = true
\* exactly when the height is below 0.1 or |roll| or |pitch| exceeds pi/3;
\* otherwise terminated = false, and truncated = true once the step counter
\* has reached max_episode_steps.
C5_TerminationOfFinitePose ==
    (StepReturned /\ PoseFinite) =>
        LET height == phys.pos[3].v
            roll == phys.orn.euler[1].v
            pitch == phys.orn.euler[2].v
            failed == \/ height < 100
                      \/ Magnitude(roll) > PiThird
                      \/ Magnitude(pitch) > PiThird
        IN  /\ ret.terminated <=> failed
            /\ (~failed /\ current_step >= max_episode_steps) =>
                   (ret.truncated /\ ~ret.terminated)

\* C5 witness: the step that reaches max_episode_steps, the robot standing,
\* returned truncated and not terminated.
C5_Witness ==
    /\ StepReturned
    /\ PoseFinite
    /\ current_step = max_episode_steps
    /\ ret.truncated
    /\ ~ret.terminated

\* C6: when the pose read after the tick holds a non-finite value, step()
\* raises nothing and returns terminated = true, whatever height, roll and
\* pitch are.
C6_NonFinitePoseTerminates ==
    (call.op = "step" /\ connected /\ robot_id # None /\ ~PoseFinite) =>
        (~ret.raised /\ ret.terminated)

\* C6 witness: a step returned terminated for a pose whose x is NaN while the
\* robot stands level at height 0.3, which neither the height nor the tilt
\* check would end.
C6_Witness ==
    /\ StepReturned
    /\ phys.pos = <<NaN, F(0), F(300)>>
    /\ phys.orn = Level
    /\ ret.terminated

\* C7: after every reset() the step counter is 0, the previous action is the
\* 12-entry zero vector and slots 27..38 of the observation returned are 0.
C7_ResetClearsEpisode ==
    (ret.op = "reset" /\ ~ret.raised) =>
        /\ current_step = 0
        /\ previous_action = [i \in 1..12 |-> F(0)]
        /\ \A i \in 1..12 : ret.obs[27 + i] = F(0)

\* C7 witness: a reset() returned after an episode in which a step() had
\* issued a non-zero joint target.
C7_Witness ==
    /\ ret.op = "reset"
    /\ ~ret.raised
    /\ \E i \in 1..Len(targets) : targets[i].target # F(0)

\* C8: reset() succeeds on an open connection, also with no body loaded yet,
\* and once a reset has run the world holds the ground plane and exactly one
\* robot body, the one robot_id names.
C8_OneRobotBody ==
    /\ (ret.op = "reset" /\ connected) => ~ret.raised
    /\ (connected /\ robot_id # None) =>
           /\ robot_id # plane_id
           /\ DOMAIN world = {plane_id, robot_id}

\* C8 witness: a reset() that was not the first returned (a step of an
\* earlier episode had driven the joints of an earlier body).
C8_Witness ==
    /\ ret.op = "reset"
    /\ ~ret.raised
    /\ Len(targets) > 0
    /\ Cardinality(DOMAIN world) = 2

\* C9: close() is idempotent: no close(), the first or a later one, raises.
C9_CloseIdempotent == ret.op = "close" => ~ret.raised

\* what the observation shows of a raw reading x in a slot bounded by b
Shown(x, b) == IF x.k = "nan" THEN F(0) ELSE Nearest(x, -b, b)

\* C10: a joint whose name is at position k of the fixed name list and is
\* present in the loaded body is read into joint-position slot k and
\* joint-velocity slot k and receives action component k as its target; the
\* slots of an absent joint are zero.
C10_JointsKeepTheirSlots ==
    GaveObservation =>
        LET asset == world[robot_id]
        IN  \A k \in 1..12 :
                IF in_asset(asset, joint_names[k])
                THEN /\ ret.obs[3 + k] = Shown(phys.joints[joint_names[k]][1], Pi)
                     /\ ret.obs[15 + k] = Shown(phys.joints[joint_names[k]][2], 50000)
                     /\ ret.op = "step" =>
                            \E i \in 1..Len(targets) :
                                /\ targets[i].joint = joint_name_to_idx(asset, joint_names[k])
                                /\ targets[i].target = Nearest(call.action[k], -Pi, Pi)
                ELSE /\ ret.obs[3 + k] = F(0)
                     /\ ret.obs[15 + k] = F(0)

\* C11: the command reset() samples when none is given is a function of the
\* seed passed to reset(): all resets with one seed sample one command.
C11_SeedDecidesCommand ==
    \A s \in Seeds : Cardinality(seed_commands[s]) <= 1

\* C12: no step() returns terminated = true and truncated = true together;
\* a termination condition on the step that reaches the cap gives
\* terminated = true and truncated = false.
C12_NeverTerminatedAndTruncated ==
    StepReturned => ~(ret.terminated /\ ret.truncated)

C14_CounterWithinCap ==
    current_step >= 0 /\ current_step <= max_episode_steps

\* C15: once a step() has returned terminated or truncated, the next step()
\* of the same episode (and so every later one before a reset) returns
\* terminated or truncated too.
C15_TerminalPersists ==
    [][(/\ StepReturned
        /\ ret.terminated \/ ret.truncated
        /\ call'.op = "step"
        /\ ~ret'.raised)
          => (ret'.terminated \/ ret'.truncated)]_vars

\* C16: when the assembled observation holds a non-finite value, the
\* returned observation has 0 in every slot whose raw value was non-finite
\* and the clamped raw value in every other slot.
C16_NonFiniteSlotsZero ==
    GaveObservation =>
        LET raw == raw_observation(phys, world[robot_id], joint_indices,
                                   previous_action, command)
        IN  ~all_finite(raw) =>
                \A i \in 1..Len(raw) :
                    ret.obs[i] = IF isfinite(raw[i])
                                 THEN Nearest(raw[i], -SlotBound(i), SlotBound(i))
                                 ELSE F(0)

C18_RewardFinite ==
    StepReturned => isfinite(ret.reward)

====
